---- MODULE Spec2Model ----
(***************************************************************************)
(* State-machine model of the SapGui class (src/main.py): the chain of     *)
(* COM handles built by the constructor, the sapLogin /                    *)
(* handle_password_change prompt negotiation, close_connection and         *)
(* sapLogout, run against a remote SAP GUI surface whose answers (window   *)
(* shown, titles, presence of elements, raised COM errors) are chosen      *)
(* nondeterministically.                                                   *)
(* wait_for_element, set_cell_value, get_dates and the password generation *)
(* have specifications of their own (SpecWait, SpecTable, SpecTableFair,   *)
(* SpecDate) that start them on every input within the bounds.             *)
(***************************************************************************)
EXTENDS Integers, Sequences, FiniteSets, TLC

VARIABLES
    SapGuiAuto,       \* self.SapGuiAuto
    connection,       \* self.connection
    session,          \* self.session
    creds,            \* (self.client, self.user, self.password, self.language)
    pc,               \* position of the single thread of control
    result,           \* value returned by the last finished sapLogin call
    lastOp,           \* the method of SapGui called last
    initOk,           \* the constructor ran to the end of its try block
    surface,          \* what the remote SAP GUI currently shows
    localeAvailable,  \* the host can set LC_TIME to pt_PT.UTF-8
    log,              \* calls made on the remote surface by the current method
    clock,            \* the date datetime.now() returns
    new_password,     \* new_password of handle_password_change
    midnights,        \* midnights that passed inside password generations
    \* wait_for_element
    timeout,          \* its timeout argument
    resolver,         \* what findById does: failures still to come and their kind
    elapsed,          \* time.time() - start_time
    wf_pc,            \* position inside wait_for_element
    wf_result,        \* value it returned
    \* set_cell_value
    column,           \* the texts of the cells of the scanned column, rows 0..
    column0,          \* the column as it was when set_cell_value was called
    cell,             \* its local cell: the handle findById returned last
    beyond,           \* what findById does for rows past the end of column
    sc_text,          \* its text argument
    row_number,       \* its local row_number
    sc_pc,            \* position inside set_cell_value
    sc_log,           \* calls it made on the remote surface
    sc_result,        \* value it returned, or "raised"
    \* get_dates and the password generation run on their own
    gd_pc,            \* position of the date functions' caller
    gd_result         \* value returned by get_dates

loginVars == <<SapGuiAuto, connection, session, creds, pc, result, lastOp, initOk,
               surface, localeAvailable, log>>

waitVars == <<timeout, resolver, elapsed, wf_pc, wf_result>>

tableVars == <<column, column0, cell, beyond, sc_text, row_number, sc_pc, sc_log, sc_result>>

dateVars == <<gd_pc, gd_result>>

vars == <<loginVars, clock, new_password, midnights, waitVars, tableVars, dateVars>>

(* The variables sapLogin and its helpers never touch.                     *)
aux == <<midnights, waitVars, tableVars, dateVars>>

handles == <<SapGuiAuto, connection, session>>

-----------------------------------------------------------------------------
(* Values of an instance attribute that holds a COM handle.                *)
(* "unset": the attribute was never assigned (reading it raises            *)
(* AttributeError); "None"; "CDispatch": a win32 CDispatch object;         *)
(* "Other": an object that is not a CDispatch.                             *)
HandleValues == {"unset", "None", "CDispatch", "Other"}

(* What a COM acquisition call can do: return one of the objects above or  *)
(* raise.                                                                  *)
CallOutcomes == {"CDispatch", "Other", "None", "raise"}

(* isinstance(h, win32.CDispatch)                                          *)
IsCDispatch(h) == h = "CDispatch"

(* Credential tuples (client, user, password, language) a caller can pass. *)
CredTuples ==
    { <<"100", "alice", "pw1", "PT">>,
      <<"200", "bob",   "pw2", "EN">> }

NoCreds == <<"", "", "", "">>

-----------------------------------------------------------------------------
(* Texts of the remote surface are modelled as sets of phrases; a          *)
(* substring test is membership of the phrase, and str.lower() lowers      *)
(* every phrase.                                                           *)
LowerPhrase(w) ==
    CASE w = "SAP"            -> "sap"
      [] w = "Logon multiplo" -> "logon multiplo"
      [] w = "Nova senha"     -> "nova senha"
      [] OTHER                -> w

Lower(text) == { LowerPhrase(w) : w \in text }

Contains(text, phrase) == phrase \in text

Titles ==
    { {"SAP"}, {"sap"}, {"Info"},
      {"Info", "logon multiplo"}, {"Info", "Logon multiplo"},
      {"SAP", "logon multiplo"} }

LabelTexts == { {"Nova senha"}, {"nova senha"}, {"Info"} }

(* The main window alone (no secondary window), with or without the        *)
(* logged-in marker element wnd[0]/tbar[0]/btn[15].                        *)
MainSurfaces ==
    { [wnd |-> "wnd[0]", title |-> {}, hasLabel |-> FALSE, label |-> {},
       marker |-> m] : m \in BOOLEAN }

(* A secondary window wnd[1] over the main window: its title, whether the  *)
(* element usr/lblRSYST-NCODE_TEXT exists in it and that label's text.     *)
PopupSurfaces ==
    { [wnd |-> "wnd[1]", title |-> t, hasLabel |-> TRUE, label |-> l,
       marker |-> m] : t \in Titles, l \in LabelTexts, m \in BOOLEAN }
    \cup
    { [wnd |-> "wnd[1]", title |-> t, hasLabel |-> FALSE, label |-> {},
       marker |-> m] : t \in Titles, m \in BOOLEAN }

Surfaces == MainSurfaces \cup PopupSurfaces

LoginScreen ==
    [wnd |-> "wnd[0]", title |-> {}, hasLabel |-> FALSE, label |-> {},
     marker |-> FALSE]

-----------------------------------------------------------------------------
(* Dates as datetime.now() gives them, reduced to year, month and day.     *)
FirstYear == 2023

LastYear == 2025

IsLeap(y) == (y % 4 = 0 /\ y % 100 # 0) \/ y % 400 = 0

DaysInMonth(y, m) ==
    IF m = 2 THEN (IF IsLeap(y) THEN 29 ELSE 28)
    ELSE IF m \in {4, 6, 9, 11} THEN 30 ELSE 31

Dates ==
    { d \in [y : FirstYear..LastYear, m : 1..12, d : 1..31] : d.d <= DaysInMonth(d.y, d.m) }

(* The day after date (midnight passes).                                   *)
NextDay(date) ==
    IF date.d < DaysInMonth(date.y, date.m) THEN [date EXCEPT !.d = date.d + 1]
    ELSE IF date.m < 12 THEN [y |-> date.y, m |-> date.m + 1, d |-> 1]
    ELSE [y |-> date.y + 1, m |-> 1, d |-> 1]

(* timedelta(days=1) subtracted from a date.                               *)
PrevDay(date) ==
    IF date.d > 1 THEN [date EXCEPT !.d = date.d - 1]
    ELSE IF date.m > 1
    THEN [y |-> date.y, m |-> date.m - 1, d |-> DaysInMonth(date.y, date.m - 1)]
    ELSE [y |-> date.y - 1, m |-> 12, d |-> 31]

(* strftime('%B') under LC_TIME pt_PT: the full month name, in lower case  *)
(* ("marco" stands for the cedilla spelling).                              *)
MonthNamesPt ==
    << "janeiro", "fevereiro", "marco", "abril", "maio", "junho", "julho",
       "agosto", "setembro", "outubro", "novembro", "dezembro" >>

StrftimeB(date) == MonthNamesPt[date.m]

(* strftime('%Y'): the year in decimal, four digits for the years here.    *)
StrftimeY(date) == ToString(date.y)

(* str.capitalize() on the month names.                                    *)
Capitalize(w) ==
    CASE w = "janeiro"   -> "Janeiro"
      [] w = "fevereiro" -> "Fevereiro"
      [] w = "marco"     -> "Marco"
      [] w = "abril"     -> "Abril"
      [] w = "maio"      -> "Maio"
      [] w = "junho"     -> "Junho"
      [] w = "julho"     -> "Julho"
      [] w = "agosto"    -> "Agosto"
      [] w = "setembro"  -> "Setembro"
      [] w = "outubro"   -> "Outubro"
      [] w = "novembro"  -> "Novembro"
      [] w = "dezembro"  -> "Dezembro"
      [] OTHER           -> w

(* Line 156: month name from the first datetime.now(), year from the       *)
(* second.                                                                 *)
GeneratePassword(now1, now2) ==
    Capitalize(StrftimeB(now1)) \o "#" \o StrftimeY(now2)

(* Midnights allowed to pass while passwords are generated.                *)
MaxMidnights == 1

(* The dates on which the login runs are tried.                            *)
LoginDates ==
    { [y |-> 2024, m |-> 5, d |-> 15], [y |-> 2024, m |-> 12, d |-> 31] }

-----------------------------------------------------------------------------
LoginInit ==
    /\ SapGuiAuto = "unset"
    /\ connection = "unset"
    /\ session = "unset"
    /\ creds = NoCreds
    /\ pc = "new"
    /\ result = "none"
    /\ lastOp = "none"
    /\ initOk = FALSE
    /\ surface = LoginScreen
    /\ localeAvailable \in BOOLEAN
    /\ log = <<>>

(* The functions that are not running: their variables at rest.           *)
WaitIdle ==
    /\ timeout = 0
    /\ resolver = [N |-> 0, failures |-> 0, kind |-> "raise"]
    /\ elapsed = 0
    /\ wf_pc = "idle"
    /\ wf_result = "none"

TableIdle ==
    /\ column = <<>>
    /\ column0 = <<>>
    /\ cell = [kind |-> "null", row |-> 0]
    /\ beyond = "null"
    /\ sc_text = ""
    /\ row_number = 0
    /\ sc_pc = "idle"
    /\ sc_log = <<>>
    /\ sc_result = [kind |-> "none", value |-> 0]

DateIdle ==
    /\ gd_pc = "idle"
    /\ gd_result = <<>>

Init ==
    /\ LoginInit
    /\ clock \in LoginDates
    /\ new_password = ""
    /\ midnights = 0
    /\ WaitIdle
    /\ TableIdle
    /\ DateIdle

-----------------------------------------------------------------------------
(* SapGui.__init__: the handles left behind for the outcome of each stage. *)
(* r0: load_config / Popen, r1: GetObject, r2: GetScriptingEngine,         *)
(* r3: OpenConnection, r4: Children(0), r5: resizeWorkingPane.             *)
InitHandles(r0, r1, r2, r3, r4, r5) ==
    IF r0 = "raise" \/ r1 = "raise"
    THEN [SapGuiAuto |-> "unset", connection |-> "unset", session |-> "unset", ok |-> FALSE]
    ELSE IF ~IsCDispatch(r1)
    THEN [SapGuiAuto |-> r1, connection |-> "unset", session |-> "unset", ok |-> FALSE]
    ELSE IF r2 = "raise"
    THEN [SapGuiAuto |-> r1, connection |-> "unset", session |-> "unset", ok |-> FALSE]
    ELSE IF ~IsCDispatch(r2)
    THEN [SapGuiAuto |-> "None", connection |-> "unset", session |-> "unset", ok |-> FALSE]
    ELSE IF r3 = "raise"
    THEN [SapGuiAuto |-> r1, connection |-> "unset", session |-> "unset", ok |-> FALSE]
    ELSE IF ~IsCDispatch(r3)
    THEN [SapGuiAuto |-> "None", connection |-> r3, session |-> "unset", ok |-> FALSE]
    ELSE IF r4 = "raise"
    THEN [SapGuiAuto |-> r1, connection |-> r3, session |-> "unset", ok |-> FALSE]
    ELSE IF ~IsCDispatch(r4)
    THEN [SapGuiAuto |-> "None", connection |-> "None", session |-> r4, ok |-> FALSE]
    ELSE [SapGuiAuto |-> r1, connection |-> r3, session |-> r4, ok |-> r5 # "raise"]

SapGui_init ==
    /\ pc = "new"
    /\ \E c \in CredTuples, r0 \in {"ok", "raise"}, r1 \in CallOutcomes,
          r2 \in CallOutcomes, r3 \in CallOutcomes, r4 \in CallOutcomes,
          r5 \in {"ok", "raise"} :
        LET h == InitHandles(r0, r1, r2, r3, r4, r5) IN
        /\ SapGuiAuto' = h.SapGuiAuto
        /\ connection' = h.connection
        /\ session' = h.session
        /\ initOk' = h.ok
        /\ creds' = IF r0 = "raise" THEN NoCreds ELSE c
    /\ pc' = "ready"
    /\ lastOp' = "init"
    /\ log' = <<>>
    /\ UNCHANGED <<result, surface, localeAvailable>>
    /\ UNCHANGED <<clock, new_password, aux>>

-----------------------------------------------------------------------------
(* One entry of log: a call on the remote surface.  op is "write", "read", *)
(* "press", "select", "sendVKey", "probe", "call" or "raise" (the call raised);    *)
(* text is the text read (titles, labels), val the value written or read.  *)
Ev(op, path, text, val) == [op |-> op, path |-> path, text |-> text, val |-> val]

Raised(path) == Ev("raise", path, {}, "")

(* SapGui.close_connection: the handles it leaves and the remote calls it  *)
(* makes, given what CloseSession does (r: "ok" or "raise").               *)
CloseHandles(conn, auto, r) ==
    IF conn = "unset"
    THEN [connection |-> conn, SapGuiAuto |-> auto, calls |-> <<>>]
    ELSE IF conn # "None" /\ (r = "raise" \/ ~IsCDispatch(conn))
    THEN [connection |-> conn, SapGuiAuto |-> auto,
          calls |-> IF IsCDispatch(conn) THEN << Raised("CloseSession") >> ELSE <<>>]
    ELSE [connection |-> "None",
          SapGuiAuto |-> IF auto = "unset" THEN auto ELSE "None",
          calls |-> IF conn # "None" THEN << Ev("call", "CloseSession", {}, "ses[0]") >> ELSE <<>>]

close_connection ==
    /\ pc = "ready"
    /\ \E r \in {"ok", "raise"} :
        LET h == CloseHandles(connection, SapGuiAuto, r) IN
        /\ connection' = h.connection
        /\ SapGuiAuto' = h.SapGuiAuto
        /\ log' = h.calls
    /\ lastOp' = "close"
    /\ UNCHANGED <<session, creds, pc, result, initOk, surface, localeAvailable>>
    /\ UNCHANGED <<clock, new_password, aux>>

-----------------------------------------------------------------------------
(* The four fields of the logon screen, in the order sapLogin writes them. *)
LoginFields ==
    << "wnd[0]/usr/txtRSYST-MANDT", "wnd[0]/usr/txtRSYST-BNAME",
       "wnd[0]/usr/pwdRSYST-BCODE", "wnd[0]/usr/txtRSYST-LANGU" >>

WritePcs == << "L191", "L192", "L193", "L194" >>

LoggedInMarker == "wnd[0]/tbar[0]/btn[15]"

(* The title tests of the two prompt variants and the label test           *)
(* ("logon multiplo" stands for the source's accented spelling).           *)
TitleIsSapPrompt(title) == Contains(Lower(title), "sap")

(* A label test that accepts any label.                                    *)
LabelAsksNewPassword_AnyLabel(label) == TRUE

LabelAsksNewPassword(label) == Contains(Lower(label), "nova senha")

TitleIsMultiLogon(title) == Contains(title, "logon multiplo")

(* A return that reports success whatever happened.                       *)
Return_AlwaysTrue(v) ==
    /\ pc' = "ready"
    /\ result' = "True"

(* sapLogin returns v.                                                     *)
Return(v) ==
    /\ pc' = "ready"
    /\ result' = v

keep == <<SapGuiAuto, connection, session, creds, lastOp, initOk, localeAvailable,
          clock, new_password, aux>>

(* Entry of sapLogin: evaluating self.client or self.session.findById on   *)
(* an object whose constructor failed raises, which the except turns into  *)
(* a return without a value.                                               *)
sapLogin_call ==
    /\ pc = "ready"
    /\ lastOp' = "login"
    /\ log' = <<>>
    /\ IF IsCDispatch(session) /\ creds # NoCreds
       THEN pc' = "L191" /\ result' = "none"
       ELSE Return("None")
    /\ UNCHANGED <<SapGuiAuto, connection, session, creds, initOk, surface, localeAvailable>>
    /\ UNCHANGED <<clock, new_password, aux>>

(* Lines 191-194: write client, user, password and language.               *)
sapLogin_write ==
    \E i \in 1..4 :
        /\ pc = WritePcs[i]
        /\ \/ /\ log' = Append(log, Ev("write", LoginFields[i], {}, creds[i]))
              /\ pc' = IF i < 4 THEN WritePcs[i + 1] ELSE "L197"
              /\ UNCHANGED result
           \/ /\ log' = Append(log, Raised(LoginFields[i]))
              /\ Return("None")
        /\ UNCHANGED <<keep, surface>>

(* Line 197: submit the logon screen; after the pause the surface shows    *)
(* whatever the SAP system answers.                                        *)
sapLogin_L197 ==
    /\ pc = "L197"
    /\ \/ /\ log' = Append(log, Ev("sendVKey", "wnd[0]", {}, "0"))
          /\ surface' \in Surfaces
          /\ pc' = "L123"
          /\ UNCHANGED result
       \/ /\ log' = Append(log, Raised("wnd[0]"))
          /\ Return("None")
          /\ UNCHANGED surface
    /\ UNCHANGED keep

(* handle_password_change, lines 122-126: set the Portuguese locale.       *)
hpc_L123 ==
    /\ pc = "L123"
    /\ IF localeAvailable
       THEN pc' = "L129" /\ UNCHANGED result
       ELSE Return("False")
    /\ UNCHANGED <<keep, surface, log>>

(* Lines 129-132: is a secondary window active?                            *)
hpc_L129 ==
    /\ pc = "L129"
    /\ \/ /\ log' = Append(log, Ev("read", "ActiveWindow", {}, surface.wnd))
          /\ pc' = IF surface.wnd # "wnd[1]" THEN "L208" ELSE "L135"
          /\ UNCHANGED result
       \/ /\ log' = Append(log, Raised("ActiveWindow"))
          /\ Return("False")
    /\ UNCHANGED <<keep, surface>>

(* Lines 135-141: read the popup title and test it.                        *)
hpc_L135 ==
    /\ pc = "L135"
    /\ \/ /\ log' = Append(log, Ev("read", "wnd[1]", surface.title, ""))
          /\ IF TitleIsSapPrompt(surface.title)
             THEN pc' = "L145" /\ UNCHANGED result
             ELSE Return("False")
       \/ /\ log' = Append(log, Raised("wnd[1]"))
          /\ Return("False")
    /\ UNCHANGED <<keep, surface>>

(* Lines 144-151: read the label of the new-password field and test it.    *)
hpc_L145 ==
    /\ pc = "L145"
    /\ \/ /\ surface.hasLabel
          /\ log' = Append(log, Ev("read", "wnd[1]/usr/lblRSYST-NCODE_TEXT", surface.label, ""))
          /\ IF LabelAsksNewPassword(surface.label)
             THEN pc' = "L156" /\ UNCHANGED result
             ELSE Return("False")
       \/ /\ log' = Append(log, Raised("wnd[1]/usr/lblRSYST-NCODE_TEXT"))
          /\ Return("False")
    /\ UNCHANGED <<keep, surface>>

(* Line 156: the new password, built from two calls of datetime.now();     *)
(* midnight may pass between them.                                         *)
hpc_L156 ==
    /\ pc = "L156"
    /\ \/ /\ new_password' = GeneratePassword(clock, clock)
          /\ UNCHANGED <<clock, midnights>>
       \/ /\ midnights < MaxMidnights
          /\ new_password' = GeneratePassword(clock, NextDay(clock))
          /\ clock' = NextDay(clock)
          /\ midnights' = midnights + 1
    /\ pc' = "L160"
    /\ UNCHANGED <<SapGuiAuto, connection, session, creds, lastOp, initOk,
                   localeAvailable, result, surface, log, waitVars, tableVars, dateVars>>

(* Lines 160-161: write the generated password into both fields.           *)
(* A second write that sends the field's old (empty) content.              *)
RotationWrites_SecondEmpty(pw) ==
    { <<"L160", "wnd[1]/usr/pwdRSYST-NCODE", "L161", pw>>,
      <<"L161", "wnd[1]/usr/pwdRSYST-NCOD2", "L164", "">> }

(* Where each of the two writes is made, the field, the next position and  *)
(* the value written, for the generated password pw.                       *)
RotationWrites(pw) ==
    { <<"L160", "wnd[1]/usr/pwdRSYST-NCODE", "L161", pw>>,
      <<"L161", "wnd[1]/usr/pwdRSYST-NCOD2", "L164", pw>> }

hpc_L160 ==
    \E f \in RotationWrites(new_password) :
        /\ pc = f[1]
        /\ \/ /\ log' = Append(log, Ev("write", f[2], {}, f[4]))
              /\ pc' = f[3]
              /\ UNCHANGED result
           \/ /\ log' = Append(log, Raised(f[2]))
              /\ Return("False")
        /\ UNCHANGED <<keep, surface>>

(* Lines 164-167: confirm the password change; after the pause the         *)
(* surface shows whatever the SAP system answers.                          *)
hpc_L164 ==
    /\ pc = "L164"
    /\ \/ /\ log' = Append(log, Ev("press", "wnd[1]/tbar[0]/btn[0]", {}, ""))
          /\ surface' \in Surfaces
          /\ pc' = "L170"
          /\ UNCHANGED result
       \/ /\ log' = Append(log, Raised("wnd[1]/tbar[0]/btn[0]"))
          /\ Return("False")
          /\ UNCHANGED surface
    /\ UNCHANGED keep

(* Lines 170-175: findById(marker, False) after the password change.       *)
hpc_L170 ==
    /\ pc = "L170"
    /\ \/ /\ log' = Append(log, Ev("probe", LoggedInMarker, {},
                                   IF surface.marker THEN "found" ELSE "absent"))
          /\ IF surface.marker
             THEN pc' = "L208" /\ UNCHANGED result
             ELSE Return("False")
       \/ /\ log' = Append(log, Raised(LoggedInMarker))
          /\ Return("False")
    /\ UNCHANGED <<keep, surface>>

(* sapLogin, line 208: is a secondary window active?                       *)
sapLogin_L208 ==
    /\ pc = "L208"
    /\ \/ /\ log' = Append(log, Ev("read", "ActiveWindow", {}, surface.wnd))
          /\ pc' = IF surface.wnd = "wnd[1]" THEN "L210" ELSE "L217"
          /\ UNCHANGED result
       \/ /\ log' = Append(log, Raised("ActiveWindow"))
          /\ Return("None")
    /\ UNCHANGED <<keep, surface>>

(* Line 210: read the popup title and test it for the multi-logon marker.  *)
sapLogin_L210 ==
    /\ pc = "L210"
    /\ \/ /\ log' = Append(log, Ev("read", "wnd[1]", surface.title, ""))
          /\ pc' = IF TitleIsMultiLogon(surface.title) THEN "L213" ELSE "L217"
          /\ UNCHANGED result
       \/ /\ log' = Append(log, Raised("wnd[1]"))
          /\ Return("None")
    /\ UNCHANGED <<keep, surface>>

(* Line 213: select the option that closes the other sessions.             *)
sapLogin_L213 ==
    /\ pc = "L213"
    /\ \/ /\ log' = Append(log, Ev("select", "wnd[1]/usr/radMULTI_LOGON_OPT1", {}, ""))
          /\ pc' = "L214"
          /\ UNCHANGED result
       \/ /\ log' = Append(log, Raised("wnd[1]/usr/radMULTI_LOGON_OPT1"))
          /\ Return("None")
    /\ UNCHANGED <<keep, surface>>

(* Line 214: press OK; the surface shows whatever the system answers.      *)
sapLogin_L214 ==
    /\ pc = "L214"
    /\ \/ /\ log' = Append(log, Ev("press", "wnd[1]/tbar[0]/btn[0]", {}, ""))
          /\ surface' \in Surfaces
          /\ pc' = "L217"
          /\ UNCHANGED result
       \/ /\ log' = Append(log, Raised("wnd[1]/tbar[0]/btn[0]"))
          /\ Return("None")
          /\ UNCHANGED surface
    /\ UNCHANGED keep

(* Lines 217-224: findById(marker); a truthy element is success, a falsy   *)
(* one closes the connection (the whole of close_connection) and fails, a  *)
(* raised lookup error leaves through the except of sapLogin.              *)
sapLogin_L217 ==
    /\ pc = "L217"
    /\ \/ /\ surface.marker
          /\ log' = Append(log, Ev("probe", LoggedInMarker, {}, "found"))
          /\ Return("True")
          /\ UNCHANGED <<connection, SapGuiAuto>>
       \/ /\ ~surface.marker
          /\ \E r \in {"ok", "raise"} :
                LET h == CloseHandles(connection, SapGuiAuto, r) IN
                /\ connection' = h.connection
                /\ SapGuiAuto' = h.SapGuiAuto
                /\ log' = log \o << Ev("probe", LoggedInMarker, {}, "absent"),
                                     Ev("call", "close_connection", {}, "") >> \o h.calls
          /\ Return("False")
       \/ /\ log' = Append(log, Raised(LoggedInMarker))
          /\ Return("None")
          /\ UNCHANGED <<connection, SapGuiAuto>>
    /\ UNCHANGED <<session, creds, lastOp, initOk, localeAvailable, surface>>
    /\ UNCHANGED <<clock, new_password, aux>>

-----------------------------------------------------------------------------
(* SapGui.sapLogout: write /nex into the command field and submit; any     *)
(* error is logged and swallowed.  n is the number of calls that went      *)
(* through before one raised (2: none raised).                             *)
sapLogout ==
    /\ pc = "ready"
    /\ lastOp' = "logout"
    /\ \/ /\ IsCDispatch(session)
          /\ \E n \in 0..2 :
                /\ log' = CASE n = 0 -> << Raised("wnd[0]/tbar[0]/okcd") >>
                            [] n = 1 -> << Ev("write", "wnd[0]/tbar[0]/okcd", {}, "/nex"),
                                           Raised("wnd[0]") >>
                            [] n = 2 -> << Ev("write", "wnd[0]/tbar[0]/okcd", {}, "/nex"),
                                           Ev("sendVKey", "wnd[0]", {}, "0") >>
                /\ IF n = 2 THEN surface' \in MainSurfaces ELSE UNCHANGED surface
       \/ /\ ~IsCDispatch(session)
          /\ log' = <<>>
          /\ UNCHANGED surface
    /\ UNCHANGED <<SapGuiAuto, connection, session, creds, pc, result, initOk, localeAvailable>>
    /\ UNCHANGED <<clock, new_password, aux>>

-----------------------------------------------------------------------------
Next ==
    \/ SapGui_init
    \/ close_connection
    \/ sapLogin_call
    \/ sapLogin_write
    \/ sapLogin_L197
    \/ hpc_L123
    \/ hpc_L129
    \/ hpc_L135
    \/ hpc_L145
    \/ hpc_L156
    \/ hpc_L160
    \/ hpc_L164
    \/ hpc_L170
    \/ sapLogin_L208
    \/ sapLogin_L210
    \/ sapLogin_L213
    \/ sapLogin_L214
    \/ sapLogin_L217
    \/ sapLogout
    \/ SapGui_init
    \/ close_connection

Spec == Init /\ [][Next]_vars

-----------------------------------------------------------------------------
(* wait_for_element(element_id, timeout) against a resolver that fails     *)
(* resolver.failures more times before it finds the element.  A failure    *)
(* of kind "raise" is findById raising, of kind "falsy" findById returning *)
(* a null handle.  Time is the time of a clock that advances only while    *)
(* the function sleeps.                                                    *)
MaxTimeout == 4

MaxFailures == 4

(* LoginInit with the host's locale fixed: the login machine at rest.      *)
LoginRest ==
    /\ LoginInit
    /\ localeAvailable = TRUE

LoginIdle ==
    /\ LoginRest
    /\ clock = [y |-> 2024, m |-> 5, d |-> 15]
    /\ new_password = ""
    /\ midnights = 0

InitWait ==
    /\ LoginIdle
    /\ TableIdle
    /\ DateIdle
    /\ timeout \in 0..MaxTimeout
    /\ \E n \in 0..MaxFailures, k \in {"raise", "falsy"} :
          resolver = [N |-> n, failures |-> n, kind |-> k]
    /\ elapsed = 0
    /\ wf_pc = "call"
    /\ wf_result = "none"

notWait == <<loginVars, clock, new_password, midnights, tableVars, dateVars>>

(* A loop test that still tries when the timeout is used up exactly.       *)
WithinTimeout_Inclusive(t, limit) == t <= limit

(* Line 310: time.time() - start_time < timeout                            *)
WithinTimeout(t, limit) == t < limit

(* Line 309: start_time = time.time()                                      *)
wf_call ==
    /\ wf_pc = "call"
    /\ elapsed' = 0
    /\ wf_pc' = "L310"
    /\ UNCHANGED <<timeout, resolver, wf_result, notWait>>

(* Lines 310 and 316: the loop test; leaving the loop returns False.       *)
wf_L310 ==
    /\ wf_pc = "L310"
    /\ IF WithinTimeout(elapsed, timeout)
       THEN wf_pc' = "L312" /\ UNCHANGED wf_result
       ELSE wf_pc' = "done" /\ wf_result' = "False"
    /\ UNCHANGED <<timeout, resolver, elapsed, notWait>>

(* Lines 311-314: one findById.                                            *)
wf_L312 ==
    /\ wf_pc = "L312"
    /\ IF resolver.failures = 0
       THEN /\ wf_pc' = "done"
            /\ wf_result' = "True"
            /\ UNCHANGED resolver
       ELSE /\ resolver' = [resolver EXCEPT !.failures = resolver.failures - 1]
            /\ wf_pc' = IF resolver.kind = "raise" THEN "L315" ELSE "L310"
            /\ UNCHANGED wf_result
    /\ UNCHANGED <<timeout, elapsed, notWait>>

(* Line 315: time.sleep(1)                                                 *)
wf_L315 ==
    /\ wf_pc = "L315"
    /\ elapsed' = elapsed + 1
    /\ wf_pc' = "L310"
    /\ UNCHANGED <<timeout, resolver, wf_result, notWait>>

NextWait ==
    \/ wf_call
    \/ wf_L310
    \/ wf_L312
    \/ wf_L315

SpecWait == InitWait /\ [][NextWait]_vars

-----------------------------------------------------------------------------
(* set_cell_value(column_path, text) against a table column.  column holds *)
(* the texts of the rows that exist; beyond says what findById does for a  *)
(* row past them: "null" returns a null handle, "raise" raises, "full"     *)
(* finds one more non-empty cell (a table without end).                    *)
MaxLen == 3

(* Rows the scan of a table without end is followed for.                   *)
MaxRow == 6

CellTexts == {"", "A", "B"}

Values == {"ZREC", "Y"}

CaretPosition == 4

Columns == UNION { [1..n -> CellTexts] : n \in 0..MaxLen }

(* One entry of sc_log.                                                    *)
CellOp(op, row, val, pos) == [op |-> op, row |-> row, val |-> val, pos |-> pos]

(* session.findById(column_path.format(row)): a handle on the cell of that *)
(* row, a null handle, or "raise".                                         *)
Resolve(row) ==
    IF row < Len(column) THEN [kind |-> "cell", row |-> row]
    ELSE IF beyond = "full" THEN [kind |-> "cell", row |-> row]
    ELSE [kind |-> beyond, row |-> row]

(* cell.Text of a handle on a cell.                                        *)
CellText(c) == IF c.row < Len(column) THEN column[c.row + 1] ELSE "A"

(* Truth value of a handle: a null handle is falsy.                        *)
CellIsTruthy(c) == c.kind = "cell"

(* A write guard that lets a null handle through.                          *)
WriteGuard_Always(c) == TRUE

(* Line 431: if cell                                                       *)
WriteGuard(c) == CellIsTruthy(c)

(* A scan test with the comparison turned round.                           *)
ScanContinues_Inverted(c) == CellIsTruthy(c) /\ CellText(c) = ""

(* A scan test that never enters the loop.                                 *)
ScanContinues_Never(c) == FALSE

(* Line 425: cell and cell.Text != ""                                      *)
ScanContinues(c) == CellIsTruthy(c) /\ CellText(c) # ""

(* A row step that skips a row.                                            *)
NextRow_Skip(r) == r + 2

(* Line 426: row_number += 1                                               *)
NextRow(r) == r + 1

InitTable ==
    /\ LoginIdle
    /\ WaitIdle
    /\ DateIdle
    /\ column \in Columns
    /\ column0 = column
    /\ beyond \in {"null", "raise", "full"}
    /\ sc_text \in Values
    /\ cell = [kind |-> "null", row |-> 0]
    /\ row_number = 0
    /\ sc_pc = "call"
    /\ sc_log = <<>>
    /\ sc_result = [kind |-> "none", value |-> 0]

notTable == <<loginVars, clock, new_password, midnights, waitVars, dateVars>>

(* The lookup raised: the exception leaves set_cell_value.                 *)
ScRaise ==
    /\ sc_pc' = "done"
    /\ sc_result' = [kind |-> "raised", value |-> 0]

(* Lines 421-423: row_number = 0 and the first lookup.                     *)
sc_call ==
    /\ sc_pc = "call"
    /\ row_number' = 0
    /\ IF Resolve(0).kind = "raise"
       THEN ScRaise /\ UNCHANGED cell
       ELSE /\ cell' = Resolve(0)
            /\ sc_pc' = "L425"
            /\ UNCHANGED sc_result
    /\ UNCHANGED <<column, column0, beyond, sc_text, sc_log, notTable>>

(* Lines 425-428: the loop test and, when it holds, one turn of the loop.  *)
sc_L425 ==
    /\ sc_pc = "L425"
    /\ IF ScanContinues(cell)
       THEN /\ row_number < MaxRow
            /\ row_number' = NextRow(row_number)
            /\ IF Resolve(NextRow(row_number)).kind = "raise"
               THEN ScRaise /\ UNCHANGED cell
               ELSE /\ cell' = Resolve(NextRow(row_number))
                    /\ UNCHANGED <<sc_pc, sc_result>>
       ELSE /\ sc_pc' = "L431"
            /\ UNCHANGED <<row_number, cell, sc_result>>
    /\ UNCHANGED <<column, column0, beyond, sc_text, sc_log, notTable>>

(* Line 431: if cell                                                       *)
sc_L431 ==
    /\ sc_pc = "L431"
    /\ sc_pc' = IF WriteGuard(cell) THEN "L433" ELSE "L438"
    /\ UNCHANGED <<column, column0, cell, beyond, sc_text, row_number, sc_log,
                   sc_result, notTable>>

(* Line 433: cell.Text = text (an attribute of a null handle cannot be     *)
(* set: AttributeError).                                                   *)
sc_L433 ==
    /\ sc_pc = "L433"
    /\ IF cell.kind = "cell"
       THEN /\ sc_log' = Append(sc_log, CellOp("write", cell.row, sc_text, 0))
            /\ column' = IF cell.row < Len(column)
                         THEN [column EXCEPT ![cell.row + 1] = sc_text]
                         ELSE column
            /\ sc_pc' = "L434"
            /\ UNCHANGED sc_result
       ELSE ScRaise /\ UNCHANGED <<sc_log, column>>
    /\ UNCHANGED <<column0, cell, beyond, sc_text, row_number, notTable>>

(* Line 434: cell.setFocus()                                               *)
sc_L434 ==
    /\ sc_pc = "L434"
    /\ sc_log' = Append(sc_log, CellOp("setFocus", cell.row, "", 0))
    /\ sc_pc' = "L435"
    /\ UNCHANGED <<column, column0, cell, beyond, sc_text, row_number, sc_result, notTable>>

(* Line 435: cell.caretPosition = 4                                        *)
sc_L435 ==
    /\ sc_pc = "L435"
    /\ sc_log' = Append(sc_log, CellOp("caretPosition", cell.row, "", CaretPosition))
    /\ sc_pc' = "L436"
    /\ UNCHANGED <<column, column0, cell, beyond, sc_text, row_number, sc_result, notTable>>

(* Line 436: session.findById("wnd[0]").sendVKey(0)                        *)
sc_L436 ==
    /\ sc_pc = "L436"
    /\ sc_log' = Append(sc_log, CellOp("sendVKey", -1, "wnd[0]", 0))
    /\ sc_pc' = "L438"
    /\ UNCHANGED <<column, column0, cell, beyond, sc_text, row_number, sc_result, notTable>>

(* Line 438: return row_number                                             *)
sc_L438 ==
    /\ sc_pc = "L438"
    /\ sc_result' = [kind |-> "return", value |-> row_number]
    /\ sc_pc' = "done"
    /\ UNCHANGED <<column, column0, cell, beyond, sc_text, row_number, sc_log, notTable>>

NextTable ==
    \/ sc_call
    \/ sc_L425
    \/ sc_L431
    \/ sc_L433
    \/ sc_L434
    \/ sc_L435
    \/ sc_L436
    \/ sc_L438

SpecTable == InitTable /\ [][NextTable]_vars

(* The function, once called, keeps running: it is the only thread.        *)
SpecTableFair == InitTable /\ [][NextTable]_vars /\ WF_vars(NextTable)

-----------------------------------------------------------------------------
(* The two functions that read the clock, each called on its own on any    *)
(* date: the password generation of handle_password_change (line 156) and  *)
(* get_dates.                                                              *)

(* replace(day=1)                                                          *)
ReplaceDay1(date) == [date EXCEPT !.d = 1]

(* Two decimal digits, as %d and %m print them.                            *)
Pad2(n) == IF n < 10 THEN "0" \o ToString(n) ELSE ToString(n)

(* strftime("%d.%m.%Y")                                                    *)
StrftimeDMY(date) == Pad2(date.d) \o "." \o Pad2(date.m) \o "." \o ToString(date.y)

(* get_dates, lines 283-296, for the date datetime.now() returned.         *)
GetDates(current_date) ==
    LET first_day_current_month == ReplaceDay1(current_date)
        previous_month_last_day == PrevDay(first_day_current_month)
        start_date == StrftimeDMY(ReplaceDay1(previous_month_last_day))
        end_date == StrftimeDMY(current_date)
    IN <<start_date, end_date>>

InitDate ==
    /\ LoginRest
    /\ WaitIdle
    /\ TableIdle
    /\ clock \in Dates
    /\ new_password = ""
    /\ midnights = 0
    /\ gd_pc = "call"
    /\ gd_result = <<>>

notDate == <<loginVars, waitVars, tableVars>>

(* Line 156 on its own: the two datetime.now() calls, between which        *)
(* midnight may pass.                                                      *)
pw_generate ==
    /\ gd_pc = "call"
    /\ \/ /\ new_password' = GeneratePassword(clock, clock)
          /\ UNCHANGED <<clock, midnights>>
       \/ /\ midnights < MaxMidnights
          /\ new_password' = GeneratePassword(clock, NextDay(clock))
          /\ clock' = NextDay(clock)
          /\ midnights' = midnights + 1
    /\ gd_pc' = "generated"
    /\ UNCHANGED <<gd_result, notDate>>

(* Lines 275-296.                                                          *)
get_dates ==
    /\ gd_pc = "call"
    /\ gd_result' = GetDates(clock)
    /\ gd_pc' = "returned"
    /\ UNCHANGED <<clock, new_password, midnights, notDate>>

NextDate ==
    \/ pw_generate
    \/ get_dates

SpecDate == InitDate /\ [][NextDate]_vars

-----------------------------------------------------------------------------
(* Vocabulary of the properties below.                                     *)

(* sapLogin has returned and nothing was called since.                     *)
LoginReturned == pc = "ready" /\ lastOp = "login"

HasEv(op, path) == \E i \in DOMAIN log : log[i].op = op /\ log[i].path = path

(* No call on the remote surface raised during the current method.         *)
NoRaise == \A i \in DOMAIN log : log[i].op # "raise"

(* Entry i of log is a read of the title of the secondary window.          *)
IsTitleRead(i) == log[i].op = "read" /\ log[i].path = "wnd[1]"

IsLabelRead(i) == log[i].op = "read" /\ log[i].path = "wnd[1]/usr/lblRSYST-NCODE_TEXT"

IsActiveWindowRead(i) == log[i].op = "read" /\ log[i].path = "ActiveWindow"

IsProbe(i) == log[i].op = "probe" /\ log[i].path = LoggedInMarker

PasswordFields == {"wnd[1]/usr/pwdRSYST-NCODE", "wnd[1]/usr/pwdRSYST-NCOD2"}

MultiLogonOption == "wnd[1]/usr/radMULTI_LOGON_OPT1"

ConfirmButton == "wnd[1]/tbar[0]/btn[0]"

(* The marker substrings, spelled out independently of the model's tests.  *)
HasSapMarker(text) == \E w \in text : LowerPhrase(w) = "sap"

HasNewPasswordMarker(text) == \E w \in text : LowerPhrase(w) = "nova senha"

HasMultiLogonMarker(text) == \E w \in text : w = "logon multiplo"

(* Before entry i, the password-rotation prompt was identified: a title    *)
(* with the SAP marker and a label with the new-password marker were read. *)
RotationVerifiedBefore(i) ==
    /\ \E j \in 1..(i - 1) : IsTitleRead(j) /\ HasSapMarker(log[j].text)
    /\ \E k \in 1..(i - 1) : IsLabelRead(k) /\ HasNewPasswordMarker(log[k].text)

(* Before entry i, a title with the multi-logon marker was read.           *)
MultiLogonVerifiedBefore(i) ==
    \E j \in 1..(i - 1) : IsTitleRead(j) /\ HasMultiLogonMarker(log[j].text)

(* All credentials were written and submitted in the current sapLogin.     *)
CredentialsSubmitted ==
    /\ \A f \in 1..4 : \E i \in DOMAIN log :
            log[i] = Ev("write", LoginFields[f], {}, creds[f])
    /\ HasEv("sendVKey", "wnd[0]")

-----------------------------------------------------------------------------
(* C1: if, after sapLogin wrote the four fields and submitted, the surface *)
(* shows no secondary window and the logged-in marker is present (and no   *)
(* call on the surface raised), then sapLogin returns True.                *)
C1_NoPromptYieldsLoggedIn ==
    ( /\ LoginReturned
      /\ CredentialsSubmitted
      /\ NoRaise
      /\ ~HasEv("press", ConfirmButton)
      /\ surface.wnd # "wnd[1]"
      /\ surface.marker )
    => result = "True"

(* C2: every write, selection or press inside the secondary window is      *)
(* preceded, in the same sapLogin run, by reads of its title/label that    *)
(* matched the marker of the variant the operation belongs to: the         *)
(* password fields and the confirm that follows them need the rotation     *)
(* prompt identified, the radio button and the confirm that follows it     *)
(* need the multi-logon title identified.                                  *)
C2_PromptVerifiedBeforeWrite ==
    \A i \in DOMAIN log :
        /\ (log[i].path \in PasswordFields) => RotationVerifiedBefore(i)
        /\ (log[i].path = MultiLogonOption) => MultiLogonVerifiedBefore(i)
        /\ (log[i].path = ConfirmButton) =>
              /\ i > 1
              /\ \/ log[i - 1].path \in PasswordFields /\ RotationVerifiedBefore(i)
                 \/ log[i - 1].path = MultiLogonOption /\ MultiLogonVerifiedBefore(i)

(* C2 witness: a run that filled in and confirmed the rotation prompt and  *)
(* then selected and confirmed the multi-logon option.                     *)
C2_Witness ==
    /\ LoginReturned
    /\ \A f \in PasswordFields : HasEv("write", f)
    /\ HasEv("select", MultiLogonOption)
    /\ \E i, j \in DOMAIN log :
          /\ i < j
          /\ log[i] = Ev("press", ConfirmButton, {}, "")
          /\ log[j] = Ev("press", ConfirmButton, {}, "")

(* C3: when the secondary window found after the credential submission is  *)
(* a multi-session warning, sapLogin selects the terminate option, presses *)
(* confirm, probes the marker afterwards, and that probe decides the       *)
(* outcome.                                                                *)
C3_MultiLogonHandled ==
    ( /\ LoginReturned
      /\ NoRaise
      /\ \E t \in DOMAIN log :
            /\ IsTitleRead(t)
            /\ \A u \in 1..(t - 1) : ~IsTitleRead(u)
            /\ HasMultiLogonMarker(log[t].text) )
    => \E i, j, k \in DOMAIN log :
          /\ i < j /\ j < k
          /\ log[i].op = "select" /\ log[i].path = MultiLogonOption
          /\ log[j].op = "press" /\ log[j].path = ConfirmButton
          /\ IsProbe(k)
          /\ result = IF log[k].val = "found" THEN "True" ELSE "False"

(* C4: when sapLogin fails because the marker probe found nothing, the     *)
(* connection handle is null when it returns.                              *)
C4_RejectedClosesSession ==
    ( /\ LoginReturned
      /\ NoRaise
      /\ result = "False"
      /\ \E i \in DOMAIN log : IsProbe(i) /\ log[i].val = "absent" )
    => connection = "None"

(* C5: when a secondary window was found whose title lacks the credential  *)
(* prompt marker, the session is closed when sapLogin returns.             *)
C5_UnexpectedPromptClosesSession ==
    ( /\ LoginReturned
      /\ NoRaise
      /\ \E i \in DOMAIN log : IsTitleRead(i) /\ ~HasSapMarker(log[i].text) )
    => connection = "None" /\ SapGuiAuto = "None"

(* C6: sapLogin never returns True in a run that inspected a secondary     *)
(* window whose title carries neither the rotation nor the multi-logon     *)
(* marker.                                                                 *)
C6_UnrecognisedPromptNeverLoggedIn ==
    ( /\ LoginReturned
      /\ \E i \in DOMAIN log :
            /\ IsTitleRead(i)
            /\ ~HasSapMarker(log[i].text)
            /\ ~HasMultiLogonMarker(log[i].text) )
    => result # "True"

(* C7: every sapLogin call returns exactly True or False.                  *)
C7_LoginReturnsBoolean ==
    LoginReturned => result \in {"True", "False"}

(* C8: after a failed construction no handle holds a live object.          *)
C8_FailedInitLeavesNoHandle ==
    (pc = "ready" /\ lastOp = "init" /\ ~initOk)
    => (~IsCDispatch(SapGuiAuto) /\ ~IsCDispatch(connection) /\ ~IsCDispatch(session))

(* C9: after close_connection returns, neither the connection handle nor   *)
(* the engine handle holds a live object, whatever the state before and    *)
(* whatever CloseSession did.                                              *)
C9_CloseNullsHandles ==
    (pc = "ready" /\ lastOp = "close")
    => (~IsCDispatch(connection) /\ ~IsCDispatch(SapGuiAuto))

(* C10: a close_connection that directly follows a close_connection makes  *)
(* no call on the remote surface and leaves every handle unchanged.        *)
C10_SecondCloseIsNoOp ==
    [][ (lastOp = "close" /\ close_connection) => (log' = <<>> /\ UNCHANGED handles) ]_vars

(* C11: whenever control is with the caller (after construction, sapLogin, *)
(* close_connection or sapLogout), the session handle holds an object only *)
(* if the connection handle is non-null.                                   *)
C11_SessionOnlyWithConnection ==
    (pc = "ready" /\ IsCDispatch(session)) => connection \notin {"None", "unset"}

-----------------------------------------------------------------------------
(* Entry k of log is the label read that completes the identification of   *)
(* the password-rotation prompt.                                           *)
RotationRecognisedAt(k) ==
    /\ IsLabelRead(k)
    /\ HasNewPasswordMarker(log[k].text)
    /\ \E j \in 1..(k - 1) : IsTitleRead(j) /\ HasSapMarker(log[j].text)

(* What follows the recognition, in order: the two writes of value v, the  *)
(* confirm and the marker probe.                                           *)
RotationStep(j, v) ==
    CASE j = 1 -> Ev("write", "wnd[1]/usr/pwdRSYST-NCODE", {}, v)
      [] j = 2 -> Ev("write", "wnd[1]/usr/pwdRSYST-NCOD2", {}, v)
      [] j = 3 -> Ev("press", ConfirmButton, {}, "")
      [] j = 4 -> Ev("probe", LoggedInMarker, {}, "found")

(* C19: once the rotation prompt is recognised, the calls that follow are, *)
(* in this order, the write of the generated password into the new field,  *)
(* the write of the same value into the confirm field, the confirm press   *)
(* and the marker probe (the sequence stops early only at a call that      *)
(* raised); no probe is made before the press; and when that probe finds   *)
(* nothing sapLogin returns False.                                         *)
C19_RotationWritesThenProbes ==
    \A k \in DOMAIN log :
        RotationRecognisedAt(k) =>
            /\ \A j \in 1..4 :
                  (k + j <= Len(log)) =>
                      \/ log[k + j] = RotationStep(j, new_password)
                      \/ /\ j = 4
                         /\ log[k + j] = Ev("probe", LoggedInMarker, {}, "absent")
                      \/ /\ log[k + j] = Raised(RotationStep(j, new_password).path)
                         /\ k + j = Len(log)
            /\ (k + 1 <= Len(log)) => new_password # ""
            /\ \A i \in 1..k : ~IsProbe(i)
            /\ ( /\ LoginReturned
                 /\ k + 4 <= Len(log)
                 /\ log[k + 4] = Ev("probe", LoggedInMarker, {}, "absent") )
               => (result = "False" /\ Len(log) = k + 4)
            /\ (LoginReturned /\ NoRaise) => k + 4 <= Len(log)

(* C19 witness: a finished login in which the rotation prompt was filled   *)
(* in and confirmed and the probe that followed found no marker.           *)
C19_Witness ==
    /\ LoginReturned
    /\ \E k \in DOMAIN log :
          /\ RotationRecognisedAt(k)
          /\ k + 4 = Len(log)
          /\ log[k + 2] = Ev("write", "wnd[1]/usr/pwdRSYST-NCOD2", {}, new_password)
          /\ log[k + 4] = Ev("probe", LoggedInMarker, {}, "absent")

(* C20: sapLogin returns True only when the last call it made on the       *)
(* surface is a marker probe that found the element, made after the four   *)
(* credential writes and the submit, and close_connection was not called.  *)
C20_TrueOnlyAfterMarkerFound ==
    (LoginReturned /\ result = "True") =>
        /\ Len(log) >= 6
        /\ log[Len(log)] = Ev("probe", LoggedInMarker, {}, "found")
        /\ \A f \in 1..4 : log[f] = Ev("write", LoginFields[f], {}, creds[f])
        /\ log[5] = Ev("sendVKey", "wnd[0]", {}, "0")
        /\ \A i \in DOMAIN log :
              /\ log[i].path \notin {"close_connection", "CloseSession"}
              /\ log[i].op # "raise"

(* C20 witness: a login that returned True.                                *)
C20_Witness ==
    /\ LoginReturned
    /\ result = "True"
    /\ log[Len(log)] = Ev("probe", LoggedInMarker, {}, "found")

-----------------------------------------------------------------------------
(* C12 as stated: with a resolver that raises on its first N attempts,     *)
(* each followed by a pause of 1, wait_for_element returns True exactly    *)
(* when N * 1 <= timeout, N = timeout included.                            *)
C12_TrueIffWithinOrAtTimeout ==
    (wf_pc = "done" /\ resolver.kind = "raise")
    => (wf_result = "True" <=> resolver.N * 1 <= timeout)

(* C12 amended: it returns True exactly when N * 1 < timeout, and False    *)
(* otherwise (N = timeout gives False).                                    *)
C12_TrueIffBeforeTimeout ==
    (wf_pc = "done" /\ resolver.kind = "raise")
    => /\ wf_result \in {"True", "False"}
       /\ wf_result = "True" <=> resolver.N * 1 < timeout

(* C12 witness: the call with N = timeout > 0 has returned, after N        *)
(* raised attempts and N pauses.                                           *)
C12_Witness ==
    /\ wf_pc = "done"
    /\ resolver.kind = "raise"
    /\ resolver.N = timeout
    /\ timeout > 0
    /\ elapsed = resolver.N
    /\ resolver.failures = 0
    /\ wf_result = "False"

-----------------------------------------------------------------------------
(* The calls of sc_log that act on the surface after the scan.             *)
WrittenRows == { sc_log[i].row : i \in { j \in DOMAIN sc_log : sc_log[j].op = "write" } }

(* Row k of the column as called is its first empty cell.                  *)
FirstEmptyAt(k) ==
    /\ k < Len(column0)
    /\ column0[k + 1] = ""
    /\ \A j \in 0..(k - 1) : column0[j + 1] # ""

(* Every row of the column as called holds text and the row after them     *)
(* cannot be resolved.                                                     *)
EndsUnresolvable ==
    /\ \A j \in 1..Len(column0) : column0[j] # ""
    /\ beyond \in {"null", "raise"}

(* This step appends a write to sc_log.                                    *)
WriteStep ==
    /\ Len(sc_log') = Len(sc_log) + 1
    /\ sc_log'[Len(sc_log')].op = "write"

(* C13: row_number starts at 0 and every change of it is an increase by 1, *)
(* and every write goes to the cell of the current row_number, whose text  *)
(* is empty at that moment.                                                *)
C13_CursorAdvancesWritesEmpty ==
    [][ /\ (sc_pc = "call") => (row_number' = 0)
        /\ (sc_pc # "call") => (row_number' = row_number \/ row_number' = row_number + 1)
        /\ WriteStep =>
              /\ sc_log'[Len(sc_log')].row = row_number
              /\ row_number < Len(column)
              /\ column[row_number + 1] = ""
      ]_vars

(* C13 witness: the value has been written at a row the scan advanced to.  *)
C13_Witness ==
    /\ sc_pc = "done"
    /\ row_number >= 2
    /\ WrittenRows = {row_number}
    /\ column0[row_number + 1] = ""
    /\ column[row_number + 1] = sc_text

ScanHasStop ==
    \/ \E j \in 1..Len(column0) : column0[j] = ""
    \/ beyond \in {"null", "raise"}

(* C18: set_cell_value comes to an end when the column has an empty cell   *)
(* or a row that fails to resolve, and never does on a column whose every  *)
(* row resolves to a cell with text.                                       *)
C18_TerminatesIffStop ==
    /\ ScanHasStop => <>(sc_pc = "done")
    /\ ~ScanHasStop => [](sc_pc # "done" /\ sc_log = <<>>)

(* C18 witness: on a table without end the scan has gone as far as it is   *)
(* followed, past the rows given, and is still scanning.                   *)
C18_Witness ==
    /\ beyond = "full"
    /\ ~ScanHasStop
    /\ row_number = MaxRow
    /\ row_number > Len(column0)
    /\ sc_pc = "L425"

-----------------------------------------------------------------------------
(* The capitalised full Portuguese month names ("Marco" for the cedilla    *)
(* spelling).                                                              *)
MonthsCapitalised ==
    << "Janeiro", "Fevereiro", "Marco", "Abril", "Maio", "Junho", "Julho",
       "Agosto", "Setembro", "Outubro", "Novembro", "Dezembro" >>

(* <Month>#<Year> of one date.                                             *)
PasswordOf(date) == MonthsCapitalised[date.m] \o "#" \o ToString(date.y)

(* C16: the generated password is <Month>#<Year> of one and the same       *)
(* current date: the date when the generation began (the day before the    *)
(* clock's date when midnight passed meanwhile) or the date when it ended. *)
C16_PasswordFromOneDate ==
    (gd_pc = "generated") =>
        \/ new_password = PasswordOf(clock)
        \/ midnights > 0 /\ new_password = PasswordOf(PrevDay(clock))

(* The month before the month of date: its year and month.                 *)
PreviousMonth(date) ==
    IF date.m = 1 THEN [y |-> date.y - 1, m |-> 12] ELSE [y |-> date.y, m |-> date.m - 1]

(* C17: get_dates returns the first day of the previous month as start and *)
(* the last day of that same month as end, both as dd.mm.yyyy.             *)
C17_PreviousMonthRange ==
    (gd_pc = "returned") =>
        LET pm == PreviousMonth(clock) IN
        gd_result = << StrftimeDMY([y |-> pm.y, m |-> pm.m, d |-> 1]),
                       StrftimeDMY([y |-> pm.y, m |-> pm.m, d |-> DaysInMonth(pm.y, pm.m)]) >>
====
